---- MODULE Spec2Model ----
(***************************************************************************)
(* The upload pipeline of file-sender: the FileUploader component (client  *)
(* queue, src/src/components/FileUploader.tsx) and the upload edge         *)
(* function (ingestion handler, src/supabase/functions/upload/index.ts),   *)
(* joined by one HTTP request/response per submitted task.                 *)
(*                                                                         *)
(* The client runs on a single-threaded event loop.  One action of the     *)
(* model is one macrotask: a user event, a timer callback or the arrival   *)
(* of a fetch result, together with all the promise continuations          *)
(* (microtasks) it triggers.  React state updates are functional updaters  *)
(* applied in the order they were enqueued, so they are applied in place.  *)
(***************************************************************************)
EXTENDS Integers, Sequences, FiniteSets, TLC

----------------------------------------------------------------------------
(* Bounds of the model. *)

\* Number of tasks ever added to the queue (task ids are 1..MaxTasks).
MaxTasks == 2

\* Number of requests sent to the handler on its own (HandlerSpec).
MaxRequests == 2

\* Last value of the handler's clock, in ms since its start (HandlerSpec).
MaxClock == 1

----------------------------------------------------------------------------
(* Program constants. *)

\* 1024 * 1024, the bytes of one MB (FileUploader.tsx:49, index.ts:41).
MiB == 1048576

\* Server-side limit in MB: maxSize = 10 * 1024 * 1024 (index.ts:41).
ServerMaxMB == 10

maxSize == ServerMaxMB * MiB

\* Progress values of uploadFile.
InitialProgress == 10
ProgressStep == 20
ProgressCap == 90
FullProgress == 100

----------------------------------------------------------------------------
(* Files and configuration. *)

\* MIME types are sequences of tokens; a pattern is one too.
TypePng == <<"image", "/", "png">>
TypeTxt == <<"text", "/", "plain">>
Star == <<"*">>
ImagePattern == <<"image", "/">>

\* The files a user may pick.  With maxFileSize = 10 and every type accepted
\* the first passes validation and the other two are over the limit by one
\* byte; with maxFileSize = 20 and images only the first passes validation
\* and the handler, the second passes validation and is over the handler's
\* limit, the third fails the type rule.
Files ==
  { [size |-> 10 * MiB,     type |-> TypePng],
    [size |-> 10 * MiB + 1, type |-> TypePng],
    [size |-> 10 * MiB + 1, type |-> TypeTxt] }

\* The props the component is mounted with (maxFileSize in MB, acceptedTypes).
Configs ==
  { [maxFileSize |-> 10, acceptedTypes |-> <<Star>>],
    [maxFileSize |-> 20, acceptedTypes |-> <<ImagePattern>>] }

TaskIds == 1..MaxTasks

\* errorMessage is a sequence of text pieces; the empty sequence is
\* "no message" (undefined, or a falsy empty string).
NoMessage == <<>>

VARIABLES
  maxFileSize,    \* prop maxFileSize (MB)
  acceptedTypes,  \* prop acceptedTypes
  files,          \* useState files: sequence of UploadedFile
  isUploading,    \* useState isUploading
  nextId,         \* number of ids handed out so far
  pendingFiles,   \* handleUpload in flight: the tasks it selected
  results,        \* per task id of the batch: the settled uploadFile result
  timers,         \* ids whose progressInterval is active
  fetching,       \* ids whose fetch promise is outstanding on the client
  net,            \* per task id: where its HTTP exchange is
  store,          \* the objects written to the 'uploads' bucket
  calls,          \* per task id: number of fetch calls issued (instrumentation)
  outcome,        \* per task id: how its fetch resolved (instrumentation)
  completed,      \* ids whose handleUpload has resolved (instrumentation)
  report,         \* number of results, successCount and errorCount of the
                  \* last handleUpload that resolved
  now,            \* Date.now() of the handler
  bucket,         \* the 'uploads' bucket by object name (HandlerSpec)
  inv             \* the invocations of the handler (HandlerSpec)

\* The state of the component and of its exchanges with the handler.
clientVars ==
  << maxFileSize, acceptedTypes, files, isUploading, nextId, pendingFiles,
     results, timers, fetching, net, store, calls, outcome, completed, report >>

\* The state of the handler driven on its own.
handlerVars == << now, bucket, inv >>

vars == << clientVars, handlerVars >>

----------------------------------------------------------------------------
(* Sequence helpers. *)

Range(s) == { s[i] : i \in 1..Len(s) }

IdsOf(s) == { s[i].id : i \in 1..Len(s) }

\* All sequences over S of length 1..n (the FileLists of n files at most).
SeqsUpTo(S, n) == UNION { [1..k -> S] : k \in 1..n }

----------------------------------------------------------------------------
(* Client: FileUploader. *)

\* String.prototype.match with a literal pattern: an unanchored search.
Matches(type, pattern) ==
  \E i \in 0..(Len(type) - Len(pattern)) :
    SubSeq(type, i + 1, i + Len(pattern)) = pattern

SizeMessage == <<"File exceeds ", ToString(maxFileSize), "MB limit">>
TypeMessage == <<"File type not accepted">>

\* Mutant of validateFile: the size rule is left out.
validateFile_NoSizeRule(file) ==
  IF /\ acceptedTypes[1] # Star
     /\ ~ \E i \in 1..Len(acceptedTypes) : Matches(file.type, acceptedTypes[i])
    THEN TypeMessage
    ELSE NoMessage

\* validateFile: the error message, or NoMessage for null.
validateFile(file) ==
  IF file.size > maxFileSize * MiB
    THEN SizeMessage
    ELSE IF /\ acceptedTypes[1] # Star
            /\ ~ \E i \in 1..Len(acceptedTypes) : Matches(file.type, acceptedTypes[i])
           THEN TypeMessage
           ELSE NoMessage

NewTask(id, file) ==
  [id |-> id, file |-> file, status |-> "pending", progress |-> 0,
   errorMessage |-> NoMessage]

\* Mutant of Appended: a file the queue already holds is not added again.
Appended_Dedupe(fs, filesToAdd) ==
  fs \o SelectSeq(filesToAdd,
                  LAMBDA t : \A i \in 1..Len(fs) : fs[i].file # t.file)

\* [...prev, ...filesToAdd]
Appended(fs, filesToAdd) == fs \o filesToAdd

\* addFiles(newFiles) with a non-null FileList.
addFiles(newFiles) ==
  /\ nextId + Len(newFiles) <= MaxTasks
  /\ files' = Appended(files,
                       [i \in 1..Len(newFiles) |-> NewTask(nextId + i, newFiles[i])])
  /\ nextId' = nextId + Len(newFiles)
  /\ UNCHANGED << maxFileSize, acceptedTypes, isUploading, pendingFiles, results,
                  timers, fetching, net, store, calls, outcome, completed, report >>
  /\ UNCHANGED handlerVars

\* Mutant of WithoutId: splice(indexOf(id), 1), which drops the last task
\* when the id is absent.
WithoutId_Splice(fs, id) ==
  IF \E i \in 1..Len(fs) : fs[i].id = id
    THEN SelectSeq(fs, LAMBDA f : f.id # id)
    ELSE SubSeq(fs, 1, Len(fs) - 1)

\* prev.filter(f => f.id !== id)
WithoutId(fs, id) == SelectSeq(fs, LAMBDA f : f.id # id)

removeFile(id) ==
  /\ files' = WithoutId(files, id)
  /\ UNCHANGED << maxFileSize, acceptedTypes, isUploading, nextId, pendingFiles,
                  results, timers, fetching, net, store, calls, outcome, completed,
                  report >>
  /\ UNCHANGED handlerVars

\* Mutant of Removable: the X button is rendered for every row.
Removable_Always(f) == TRUE

\* The X button of a row: rendered only for a pending or error task.
Removable(f) == f.status = "pending" \/ f.status = "error"

RemoveButton(id) ==
  /\ \E i \in 1..Len(files) : files[i].id = id /\ Removable(files[i])
  /\ removeFile(id)

\* setFiles([])
Cleared(fs) == <<>>

clearAll ==
  /\ files' = Cleared(files)
  /\ UNCHANGED << maxFileSize, acceptedTypes, isUploading, nextId, pendingFiles,
                  results, timers, fetching, net, store, calls, outcome, completed,
                  report >>
  /\ UNCHANGED handlerVars

\* The "Clear all" button: rendered only while the list is not empty.
ClearButton ==
  /\ Len(files) > 0
  /\ clearAll

----------------------------------------------------------------------------
(* Client: uploadFile and handleUpload. *)

\* The exchange of a task that has none, and its phases:
\* "idle" (no request yet), "request" (on its way to the handler),
\* "response" (on its way back, with its status), "done".
Idle == [phase |-> "idle", status |-> 0, size |-> 0, present |-> FALSE]
Done == [phase |-> "done", status |-> 0, size |-> 0, present |-> FALSE]

\* Mutant of ResponseOk: every response counts as a success.
ResponseOk_Any(status) == status >= 200

\* response.ok
ResponseOk(status) == status >= 200 /\ status <= 299

\* response.statusText
StatusText(status) ==
  CASE status = 200 -> "OK"
    [] status = 400 -> "Bad Request"
    [] status = 500 -> "Internal Server Error"
    [] OTHER -> ""

\* The message of the TypeError a failed fetch rejects with.
FetchErrorMessage == <<"Failed to fetch">>

\* Mutant of InvalidResult: the status is left as it was.
InvalidResult_NoStatus(task, validationError) ==
  [task EXCEPT !.errorMessage = validationError]

\* uploadFile, validation failed (line 101).
InvalidResult(task, validationError) ==
  [task EXCEPT !.status = "error", !.errorMessage = validationError]

\* Mutant of SuccessResult: progress is not set.
SuccessResult_NoProgress(task) ==
  [task EXCEPT !.status = "success"]

\* uploadFile, response ok (line 137).
SuccessResult(task) ==
  [task EXCEPT !.status = "success", !.progress = FullProgress]

\* Mutant of ErrorResult: the message is dropped.
ErrorResult_NoMessage(task, errorMessage) ==
  [task EXCEPT !.status = "error", !.progress = 0]

\* uploadFile, catch block (lines 139-140).
ErrorResult(task, errorMessage) ==
  [task EXCEPT !.status = "error", !.errorMessage = errorMessage, !.progress = 0]

\* uploadFile after the fetch resolved with a response (lines 133-141).
ResponseResult(task, status) ==
  IF ResponseOk(status)
    THEN SuccessResult(task)
    ELSE ErrorResult(task, <<"Upload failed: ", StatusText(status)>>)

\* Mutant of PendingFiles: no filter on the status.
PendingFiles_All(fs) == fs

\* files.filter(f => f.status === 'pending')
PendingFiles(fs) == SelectSeq(fs, LAMBDA f : f.status = "pending")

pendingCount == Len(PendingFiles(files))

\* The updater of line 109: the task of this id becomes uploading at 10.
MarkUploading(fs, ids) ==
  [i \in 1..Len(fs) |->
     IF fs[i].id \in ids
       THEN [fs[i] EXCEPT !.status = "uploading", !.progress = InitialProgress]
       ELSE fs[i]]

\* Mutant of Advance: the status is not looked at.
Advance_AnyStatus(fs, id) ==
  [i \in 1..Len(fs) |->
     IF fs[i].id = id /\ fs[i].progress < ProgressCap
       THEN [fs[i] EXCEPT !.progress =
               IF fs[i].progress + ProgressStep < ProgressCap
                 THEN fs[i].progress + ProgressStep ELSE ProgressCap]
       ELSE fs[i]]

\* Mutant of Advance: no cap on the progress.
Advance_NoCap(fs, id) ==
  [i \in 1..Len(fs) |->
     IF fs[i].id = id /\ fs[i].status = "uploading"
       THEN [fs[i] EXCEPT !.progress = fs[i].progress + ProgressStep]
       ELSE fs[i]]

\* The updater of the interval callback (lines 117-123).
Advance(fs, id) ==
  [i \in 1..Len(fs) |->
     IF fs[i].id = id /\ fs[i].status = "uploading" /\ fs[i].progress < ProgressCap
       THEN [fs[i] EXCEPT !.progress =
               IF fs[i].progress + ProgressStep < ProgressCap
                 THEN fs[i].progress + ProgressStep ELSE ProgressCap]
       ELSE fs[i]]

\* Mutant of Merge: no result is ever found, each task stays as it is.
Merge_NoneFound(fs, res) == fs

\* Mutant of Merge: a result whose task is absent from the queue is put back.
Merge_Upsert(fs, res) ==
  LET present == [i \in 1..Len(fs) |->
                    IF fs[i].id \in DOMAIN res THEN res[fs[i].id] ELSE fs[i]]
      absent  == { id \in DOMAIN res : \A i \in 1..Len(fs) : fs[i].id # id }
  IN  IF absent = {} THEN present
      ELSE present \o << res[CHOOSE id \in absent : TRUE] >>

\* The updater of lines 159-164: results.find(r => r.id === f.id) || f.
Merge(fs, res) ==
  [i \in 1..Len(fs) |->
     IF fs[i].id \in DOMAIN res THEN res[fs[i].id] ELSE fs[i]]

\* results.filter(r => r.status === status).length
CountStatus(res, status) == Cardinality({ id \in DOMAIN res : res[id].status = status })

\* handleUpload after Promise.all resolved (lines 159-185), on the queue fs.
Complete(fs, res) ==
  /\ files' = Merge(fs, res)
  /\ report' = [n            |-> Cardinality(DOMAIN res),
                successCount |-> CountStatus(res, "success"),
                errorCount   |-> CountStatus(res, "error")]
  /\ isUploading' = FALSE
  /\ pendingFiles' = <<>>
  /\ results' = <<>>
  /\ completed' = completed \cup DOMAIN res

\* Mutant of Settle: each result is merged into the queue as it settles.
Settle_Eager(fs, batch, res) ==
  IF DOMAIN res = IdsOf(batch)
    THEN Complete(fs, res)
    ELSE /\ files' = Merge(fs, res)
         /\ results' = res
         /\ isUploading' = TRUE
         /\ pendingFiles' = batch
         /\ UNCHANGED << completed, report >>

\* One uploadFile promise settles with result r; when it is the last of
\* the batch, Promise.all resolves and handleUpload continues at once.
Settle(fs, batch, res) ==
  IF DOMAIN res = IdsOf(batch)
    THEN Complete(fs, res)
    ELSE /\ files' = fs
         /\ results' = res
         /\ isUploading' = TRUE
         /\ pendingFiles' = batch
         /\ UNCHANGED << completed, report >>

\* The results of the tasks of a batch that fail local validation.
InvalidResults(batch) ==
  LET bad == { i \in 1..Len(batch) : validateFile(batch[i].file) # NoMessage }
      ids == { batch[i].id : i \in bad }
  IN  [id \in ids |->
         LET i == CHOOSE j \in bad : batch[j].id = id
         IN  InvalidResult(batch[i], validateFile(batch[i].file))]

\* handleUpload up to its await: every uploadFile runs to its own await
\* (validation, the uploading update, the interval, the fetch).  The Upload
\* button is rendered while pendingCount > 0 and disabled while isUploading.
handleUpload ==
  /\ pendingCount > 0
  /\ ~ isUploading
  /\ LET batch == PendingFiles(files)
         bad   == InvalidResults(batch)
         sent  == IdsOf(batch) \ DOMAIN bad
         file(id) == (CHOOSE t \in Range(batch) : t.id = id).file
     IN  /\ timers' = timers \cup sent
         /\ fetching' = fetching \cup sent
         /\ net' = [id \in TaskIds |->
                      IF id \in sent
                        THEN [phase |-> "request", status |-> 0,
                              size |-> file(id).size, present |-> TRUE]
                        ELSE net[id]]
         /\ calls' = [id \in TaskIds |-> IF id \in sent THEN calls[id] + 1 ELSE calls[id]]
         /\ Settle(MarkUploading(files, sent), batch, bad)
  /\ UNCHANGED << maxFileSize, acceptedTypes, nextId, store, outcome >>
  /\ UNCHANGED handlerVars

\* A tick of the progressInterval of task id.
Tick(id) ==
  /\ id \in timers
  /\ files' = Advance(files, id)
  /\ UNCHANGED << maxFileSize, acceptedTypes, isUploading, nextId, pendingFiles,
                  results, timers, fetching, net, store, calls, outcome, completed,
                  report >>
  /\ UNCHANGED handlerVars

TaskOf(batch, id) == CHOOSE t \in Range(batch) : t.id = id

\* The fetch of task id resolves with the handler's response: uploadFile
\* clears its interval and returns its result (lines 131-141).
Respond(id) ==
  /\ id \in fetching
  /\ net[id].phase = "response"
  /\ fetching' = fetching \ {id}
  /\ timers' = timers \ {id}
  /\ net' = [net EXCEPT ![id] = Done]
  /\ outcome' = [outcome EXCEPT ![id] = net[id].status]
  /\ Settle(files, pendingFiles,
            (id :> ResponseResult(TaskOf(pendingFiles, id), net[id].status)) @@ results)
  /\ UNCHANGED << maxFileSize, acceptedTypes, nextId, store, calls >>
  /\ UNCHANGED handlerVars

\* The fetch of task id rejects (transport failure): control enters the
\* catch block from line 126, so line 131 is skipped and the interval
\* stays active.  The request, or the response on its way back, is lost.
FetchFails(id) ==
  /\ id \in fetching
  /\ fetching' = fetching \ {id}
  /\ net' = [net EXCEPT ![id] = Done]
  /\ outcome' = [outcome EXCEPT ![id] = 0]
  /\ Settle(files, pendingFiles,
            (id :> ErrorResult(TaskOf(pendingFiles, id), FetchErrorMessage)) @@ results)
  /\ UNCHANGED << maxFileSize, acceptedTypes, nextId, timers, store, calls >>
  /\ UNCHANGED handlerVars

----------------------------------------------------------------------------
(* Server: the upload edge function, on a POST. *)

\* What can go wrong inside the handler, beyond its own checks: nothing, an
\* exception before the store is reached (caught at line 108), or the
\* store refusing the write (line 69).
Faults == {"none", "exception", "store"}

\* Mutant of Handle: the size is checked after the store write.
Handle_WriteBeforeSizeCheck(req, fault) ==
  IF fault = "exception"    THEN [status |-> 500, written |-> FALSE]
  ELSE IF ~ req.present     THEN [status |-> 400, written |-> FALSE]
  ELSE IF fault = "store"   THEN [status |-> 500, written |-> FALSE]
  ELSE IF req.size > maxSize THEN [status |-> 400, written |-> TRUE]
  ELSE                           [status |-> 200, written |-> TRUE]

\* Mutant of Handle: a file of exactly the limit is rejected.
Handle_RejectAtLimit(req, fault) ==
  IF fault = "exception"    THEN [status |-> 500, written |-> FALSE]
  ELSE IF ~ req.present     THEN [status |-> 400, written |-> FALSE]
  ELSE IF req.size >= maxSize THEN [status |-> 400, written |-> FALSE]
  ELSE IF fault = "store"   THEN [status |-> 500, written |-> FALSE]
  ELSE                           [status |-> 200, written |-> TRUE]

\* Mutant of Handle: the file field is not checked.
Handle_NoFileCheck(req, fault) ==
  IF fault = "exception"    THEN [status |-> 500, written |-> FALSE]
  ELSE IF req.size > maxSize THEN [status |-> 400, written |-> FALSE]
  ELSE IF fault = "store"   THEN [status |-> 500, written |-> FALSE]
  ELSE                           [status |-> 200, written |-> TRUE]

\* The handler on request req under fault: the status it answers with and
\* whether it wrote the file to the store.
Handle(req, fault) ==
  IF fault = "exception"    THEN [status |-> 500, written |-> FALSE]
  ELSE IF ~ req.present     THEN [status |-> 400, written |-> FALSE]
  ELSE IF req.size > maxSize THEN [status |-> 400, written |-> FALSE]
  ELSE IF fault = "store"   THEN [status |-> 500, written |-> FALSE]
  ELSE                           [status |-> 200, written |-> TRUE]

\* The object a write for the request of task id creates.  A write that
\* succeeds has a name no object has yet (upsert: false, line 66), here its
\* rank among the writes made for that task.
NewObject(objects, id, size) ==
  [task |-> id, size |-> size,
   rank |-> Cardinality({ o \in objects : o.task = id }) + 1]

\* The handler serves the request of task id and its response travels back.
Serve(id) ==
  /\ net[id].phase = "request"
  /\ \E fault \in Faults :
       LET r == Handle(net[id], fault)
       IN  /\ store' = IF r.written
                         THEN store \cup {NewObject(store, id, net[id].size)}
                         ELSE store
           /\ net' = [net EXCEPT ![id].phase = "response", ![id].status = r.status]
  /\ UNCHANGED << maxFileSize, acceptedTypes, files, isUploading, nextId, pendingFiles,
                  results, timers, fetching, calls, outcome, completed, report >>
  /\ UNCHANGED handlerVars

----------------------------------------------------------------------------
(* Server: the upload edge function driven on its own, by any client.      *)
(* An invocation runs in two steps, split at the await of the store        *)
(* upload (line 62); invocations interleave at that await.  In Spec above  *)
(* the same decisions are taken by Handle in one step, a name that is      *)
(* already taken being one of the reasons for the fault "store".           *)

Methods == {"OPTIONS", "POST"}

\* Original file names, as sequences of characters.
Names == { <<"a", " ", "b">>, <<"a", "_", "b">> }

\* The values of Math.random().toString(36).substring(2, 8) in reach.
Tokens == {"k3x9qa", "p07zme"}

NoName == <<>>

\* The requests a client may send: a body that is no form data, a form
\* without the file field, a form with a file of 10 MB or of one byte more.
Requests ==
  { [method |-> m, parseable |-> FALSE, present |-> FALSE, size |-> 0, name |-> NoName]
      : m \in Methods }
  \cup
  { [method |-> m, parseable |-> TRUE, present |-> FALSE, size |-> 0, name |-> NoName]
      : m \in Methods }
  \cup
  { [method |-> m, parseable |-> TRUE, present |-> TRUE, size |-> sz, name |-> n]
      : m \in Methods, sz \in {maxSize, maxSize + 1}, n \in Names }

corsHeaders == {"Access-Control-Allow-Origin", "Access-Control-Allow-Headers"}

\* { ...corsHeaders, 'Content-Type': 'application/json' }
JsonHeaders == corsHeaders \cup {"Content-Type"}

\* The characters of [a-zA-Z0-9._-].
SafeChars ==
  { "a", "b", "c", "d", "e", "f", "g", "h", "i", "j", "k", "l", "m",
    "n", "o", "p", "q", "r", "s", "t", "u", "v", "w", "x", "y", "z",
    "A", "B", "C", "D", "E", "F", "G", "H", "I", "J", "K", "L", "M",
    "N", "O", "P", "Q", "R", "S", "T", "U", "V", "W", "X", "Y", "Z",
    "0", "1", "2", "3", "4", "5", "6", "7", "8", "9", ".", "_", "-" }

\* file.name.replace(/[^a-zA-Z0-9._-]/g, '_')
Sanitize(name) ==
  [i \in 1..Len(name) |-> IF name[i] \in SafeChars THEN name[i] ELSE "_"]

NoFileName == [timestamp |-> -1, randomStr |-> "", sanitizedName |-> NoName]

\* `${timestamp}-${randomStr}-${sanitizedName}`
UniqueFileName(timestamp, randomStr, name) ==
  [timestamp |-> timestamp, randomStr |-> randomStr, sanitizedName |-> Sanitize(name)]

\* getPublicUrl(uniqueFileName).publicUrl
PublicUrl(fileName) == << "uploads", fileName >>

NoResponse ==
  [status |-> 0, headers |-> {}, empty |-> TRUE, success |-> FALSE, error |-> "",
   path |-> NoFileName, url |-> << >>]

\* new Response(null, { headers: corsHeaders })
PreflightResponse ==
  [status |-> 200, headers |-> corsHeaders, empty |-> TRUE, success |-> FALSE,
   error |-> "", path |-> NoFileName, url |-> << >>]

\* The JSON responses { error } of lines 29, 44, 71 and 111.
ErrorResponse(status, error) ==
  [status |-> status, headers |-> JsonHeaders, empty |-> FALSE, success |-> FALSE,
   error |-> error, path |-> NoFileName, url |-> << >>]

\* The JSON response of lines 87-107.
SuccessResponse(fileName) ==
  [status |-> 200, headers |-> JsonHeaders, empty |-> FALSE, success |-> TRUE,
   error |-> "", path |-> fileName, url |-> PublicUrl(fileName)]

\* The error text that goes with the decision of Handle.
ErrorOf(req, fault) ==
  IF fault = "exception"     THEN "An unexpected error occurred"
  ELSE IF ~ req.present      THEN "No file provided"
  ELSE IF req.size > maxSize THEN "File exceeds 10MB limit"
  ELSE IF fault = "store"    THEN "Upload failed: The resource already exists"
  ELSE                            ""

\* Mutant of IsPreflight: the method is not looked at.
IsPreflight_Never(req) == FALSE

\* req.method === 'OPTIONS'
IsPreflight(req) == req.method = "OPTIONS"

\* storage.from('uploads').upload(name, file, { upsert: false })
Put(objects, object) ==
  IF \E o \in objects : o.name = object.name
    THEN [error |-> TRUE, objects |-> objects]
    ELSE [error |-> FALSE, objects |-> objects \cup {object}]

FreeSlot ==
  [phase |-> "free", req |-> CHOOSE r \in Requests : TRUE,
   uniqueFileName |-> NoFileName, storeError |-> FALSE, response |-> NoResponse]

Slots == 1..MaxRequests

\* The handler from its start to the await of the store upload, or to the
\* response it returns before (lines 9-59).
Receive(k, req, randomStr) ==
  /\ inv[k].phase = "free"
  /\ k > 1 => inv[k - 1].phase # "free"
  /\ IF IsPreflight(req)
       THEN inv' = [inv EXCEPT ![k] =
                      [FreeSlot EXCEPT !.phase = "answered", !.req = req,
                                       !.response = PreflightResponse]]
       ELSE LET fault == IF req.parseable THEN "none" ELSE "exception"
                h     == Handle(req, fault)
            IN  IF h.written
                  THEN inv' = [inv EXCEPT ![k] =
                                 [FreeSlot EXCEPT !.phase = "uploading", !.req = req,
                                    !.uniqueFileName =
                                       UniqueFileName(now, randomStr, req.name)]]
                  ELSE inv' = [inv EXCEPT ![k] =
                                 [FreeSlot EXCEPT !.phase = "answered", !.req = req,
                                    !.response =
                                       ErrorResponse(h.status, ErrorOf(req, fault))]]
  /\ UNCHANGED << now, bucket >>
  /\ UNCHANGED clientVars

\* The store upload of invocation k returns and the handler answers
\* (lines 62-107).  The store refuses a name that is taken, and may fail
\* for reasons of its own.
StoreWrite(k, storeFails) ==
  /\ inv[k].phase = "uploading"
  /\ LET object == [name |-> inv[k].uniqueFileName, size |-> inv[k].req.size, by |-> k]
         put    == Put(bucket, object)
         failed == storeFails \/ put.error
         h      == Handle(inv[k].req, IF failed THEN "store" ELSE "none")
     IN  /\ bucket' = IF h.written THEN put.objects ELSE bucket
         /\ inv' = [inv EXCEPT ![k].phase = "answered",
                               ![k].storeError = failed,
                               ![k].response =
                                  IF h.status = 200
                                    THEN SuccessResponse(inv[k].uniqueFileName)
                                    ELSE ErrorResponse(h.status,
                                                       ErrorOf(inv[k].req, "store"))]
  /\ UNCHANGED now
  /\ UNCHANGED clientVars

\* A millisecond passes.
ClockTick ==
  /\ now < MaxClock
  /\ now' = now + 1
  /\ UNCHANGED << bucket, inv >>
  /\ UNCHANGED clientVars

----------------------------------------------------------------------------
(* Specifications. *)

Init ==
  /\ \E c \in Configs :
       /\ maxFileSize = c.maxFileSize
       /\ acceptedTypes = c.acceptedTypes
  /\ files = <<>>
  /\ isUploading = FALSE
  /\ nextId = 0
  /\ pendingFiles = <<>>
  /\ results = <<>>
  /\ timers = {}
  /\ fetching = {}
  /\ net = [id \in TaskIds |-> Idle]
  /\ store = {}
  /\ calls = [id \in TaskIds |-> 0]
  /\ outcome = [id \in TaskIds |-> -1]
  /\ completed = {}
  /\ report = [n |-> 0, successCount |-> 0, errorCount |-> 0]
  /\ now = 0
  /\ bucket = {}
  /\ inv = [k \in Slots |-> FreeSlot]

Next ==
  \/ \E newFiles \in SeqsUpTo(Files, MaxTasks) : addFiles(newFiles)
  \/ \E id \in TaskIds : RemoveButton(id)
  \/ ClearButton
  \/ handleUpload
  \/ \E id \in TaskIds : Tick(id)
  \/ \E id \in TaskIds : Serve(id)
  \/ \E id \in TaskIds : Respond(id)
  \/ \E id \in TaskIds : FetchFails(id)

Spec == Init /\ [][Next]_vars

\* Every issued network call eventually resolves: a request on its way is
\* served and a response on its way back is delivered.
FairSpec ==
  /\ Spec
  /\ \A id \in TaskIds : WF_vars(Serve(id)) /\ WF_vars(Respond(id))

\* The component driven through its functions: removeFile may be called
\* with any id, whatever the rendered rows offer.
ApiNext ==
  \/ Next
  \/ \E id \in TaskIds : removeFile(id)

ApiSpec == Init /\ [][ApiNext]_vars

\* The handler on its own, under requests of any client.
HandlerNext ==
  \/ \E k \in Slots, req \in Requests, randomStr \in Tokens : Receive(k, req, randomStr)
  \/ \E k \in Slots, storeFails \in BOOLEAN : StoreWrite(k, storeFails)
  \/ ClockTick

HandlerSpec == Init /\ [][HandlerNext]_vars

----------------------------------------------------------------------------
(* Vocabulary of the properties. *)

\* The objects the store holds for the request of task id.
ObjectsOf(id) == { o \in store : o.task = id }

Oversize(f) == f.file.size > maxFileSize * MiB

Terminal(f) == f.status = "success" \/ f.status = "error"

\* A message with some text in it.
NonEmpty(msg) == \E i \in 1..Len(msg) : msg[i] # ""

\* The fetch of task id resolved with a 2xx response.
GotOk(id) == outcome[id] >= 200 /\ outcome[id] <= 299

\* The fetch of task id resolved with another response, or rejected.
GotFailure(id) == outcome[id] >= 0 /\ ~ GotOk(id)

----------------------------------------------------------------------------
(* C1: a task whose file is larger than the configured maximum is never    *)
(* sent: no fetch is issued for it, it is never uploading, and once its    *)
(* handleUpload has resolved it is in error with the size message.         *)
C1_OversizeNeverSent ==
  \A i \in 1..Len(files) :
    Oversize(files[i]) =>
      /\ calls[files[i].id] = 0
      /\ net[files[i].id].phase = "idle"
      /\ files[i].status \in {"pending", "error"}
      /\ files[i].id \in completed =>
            /\ files[i].status = "error"
            /\ files[i].errorMessage = SizeMessage

\* An oversize task, submitted next to a task that was sent, ended in error.
C1_Witness ==
  \E i, j \in 1..Len(files) :
    /\ Oversize(files[i])
    /\ files[i].id \in completed
    /\ files[i].status = "error"
    /\ files[j].id \in completed
    /\ calls[files[j].id] = 1

(* C2: a task shown as success has one fetch issued and one object in the  *)
(* store, whatever the interleaving of the exchanges.                      *)
C2_OneObjectPerSuccess ==
  \A i \in 1..Len(files) :
    files[i].status = "success" =>
      /\ calls[files[i].id] = 1
      /\ Cardinality(ObjectsOf(files[i].id)) = 1

\* Two tasks of one batch are success and the store holds two objects.
C2_Witness ==
  /\ Len(files) = 2
  /\ \A i \in 1..Len(files) : files[i].status = "success"
  /\ Cardinality(store) = 2

(* C3 as stated: a task shown as error has no object in the store.         *)
C3_NoObjectPerError ==
  \A i \in 1..Len(files) :
    files[i].status = "error" => ObjectsOf(files[i].id) = {}

(* C3 amended: a task in error by local validation or by a non-success     *)
(* response has no object in the store; a task in error by a transport     *)
(* failure has at most one.                                                *)
C3_NoObjectUnlessTransportFailure ==
  \A i \in 1..Len(files) :
    files[i].status = "error" =>
      /\ outcome[files[i].id] # 0 => ObjectsOf(files[i].id) = {}
      /\ Cardinality(ObjectsOf(files[i].id)) <= 1

\* One task is in error after a 400 or 500 response, another after a
\* transport failure that came after the handler had written its object.
C3_Witness ==
  \E i, j \in 1..Len(files) :
    /\ files[i].status = "error"
    /\ outcome[files[i].id] \in {400, 500}
    /\ files[j].status = "error"
    /\ outcome[files[j].id] = 0
    /\ ObjectsOf(files[j].id) # {}

(* C4: no task ever has a second fetch issued, and a task whose fetch is   *)
(* outstanding has exactly one.                                            *)
C4_AtMostOneSubmission ==
  \A id \in TaskIds :
    /\ calls[id] <= 1
    /\ id \in fetching => calls[id] = 1

\* A second handleUpload is in flight while a task the first one sent is
\* still in the queue.
C4_Witness ==
  \E i, j \in 1..Len(files) :
    /\ files[i].id \in completed
    /\ calls[files[i].id] = 1
    /\ files[j].id \in fetching
    /\ files[j].status = "uploading"

(* C5: once its handleUpload has resolved, a task whose fetch got a 2xx    *)
(* response is success at progress 100.                                    *)
C5_OkResponseYieldsSuccess ==
  \A i \in 1..Len(files) :
    (files[i].id \in completed /\ GotOk(files[i].id)) =>
      /\ files[i].status = "success"
      /\ files[i].progress = FullProgress

\* A batch of two resolved: one task got a 2xx response, the other failed.
C5_Witness ==
  \E i, j \in 1..Len(files) :
    /\ {files[i].id, files[j].id} \subseteq completed
    /\ report.n = 2
    /\ GotOk(files[i].id)
    /\ files[i].status = "success"
    /\ GotFailure(files[j].id)

(* C6: once its handleUpload has resolved, a task whose fetch got a        *)
(* non-2xx response or was rejected is error at progress 0 with a message  *)
(* that is not empty; only a task in error carries a message.              *)
C6_FailureYieldsError ==
  \A i \in 1..Len(files) :
    /\ (files[i].id \in completed /\ GotFailure(files[i].id)) =>
          /\ files[i].status = "error"
          /\ files[i].progress = 0
          /\ NonEmpty(files[i].errorMessage)
    /\ files[i].errorMessage # NoMessage => files[i].status = "error"

\* One task failed by a 400 or 500 response, another by a transport failure.
C6_Witness ==
  \E i, j \in 1..Len(files) :
    /\ {files[i].id, files[j].id} \subseteq completed
    /\ outcome[files[i].id] \in {400, 500}
    /\ files[i].status = "error"
    /\ outcome[files[j].id] = 0
    /\ files[j].status = "error"

----------------------------------------------------------------------------
(* Steps of handleUpload, told by what they change. *)

\* A handleUpload is called: none is in flight before, and it issues a
\* fetch or resolves at once.
Starts ==
  /\ ~ isUploading
  /\ pendingFiles = <<>>
  /\ calls' # calls \/ completed' # completed

\* The tasks a handleUpload called in this step selected.
SelectedNow == IdsOf(pendingFiles') \cup (completed' \ completed)

\* A handleUpload resolves in this step, and the tasks it had selected.
Resolves == completed' # completed
ResolvedNow == completed' \ completed

PendingIds == { files[i].id : i \in { k \in 1..Len(files) : files[k].status = "pending" } }

C7_SelectsPending == Starts => SelectedNow = PendingIds

C7_TerminalAtResolve ==
  Resolves =>
    \A i \in 1..Len(files') :
      files'[i].id \in ResolvedNow => Terminal(files'[i])

(* C7: handleUpload selects exactly the tasks that are pending when it is  *)
(* called; when it resolves, every task it selected that is still in the   *)
(* queue is success or error; and, every issued network call resolving in  *)
(* the end, a handleUpload in flight resolves in the end.                  *)
C7_StartUploadResolves ==
  /\ [][C7_SelectsPending /\ C7_TerminalAtResolve]_vars
  /\ (isUploading ~> ~ isUploading)

\* A handleUpload that had selected two tasks and sent them has resolved,
\* and both are still in the queue.
C7_Witness ==
  /\ report.n = 2
  /\ ~ isUploading
  /\ Len(files) = 2
  /\ \A i \in 1..Len(files) :
       files[i].id \in completed /\ calls[files[i].id] = 1

(* C8: when a handleUpload resolves, it reports as many results as it had  *)
(* selected tasks; successCount and errorCount add up to that number;      *)
(* successCount is the number of selected tasks whose fetch got a 2xx      *)
(* response and errorCount the number of the others; the selected tasks    *)
(* still in the queue show these outcomes.                                 *)
C8_CountsMatchOutcomes ==
  [][ Resolves =>
        LET ok      == { id \in ResolvedNow : outcome'[id] >= 200 /\ outcome'[id] <= 299 }
            shown(st) == { i \in 1..Len(files') :
                             files'[i].id \in ResolvedNow /\ files'[i].status = st }
        IN  /\ report'.n = Cardinality(ResolvedNow)
            /\ report'.successCount + report'.errorCount = report'.n
            /\ report'.successCount = Cardinality(ok)
            /\ report'.errorCount = Cardinality(ResolvedNow \ ok)
            /\ \A i \in shown("success") : files'[i].id \in ok
            /\ \A i \in shown("error") : files'[i].id \notin ok
    ]_vars

\* A handleUpload of two tasks reported one success and one error.
C8_Witness ==
  /\ report.n = 2
  /\ report.successCount = 1
  /\ report.errorCount = 1
  /\ Len(files) = 2
  /\ \E i, j \in 1..Len(files) :
       files[i].status = "success" /\ files[j].status = "error"

(* C9: the Clear all button leaves the queue empty whatever the statuses   *)
(* of its tasks; a tick, a response or a transport failure for a task that *)
(* is not in the queue leaves the queue as it is.                          *)
C9_ClearEmptiesAndLateEventsIgnored ==
  [][ /\ ClearButton => files' = <<>>
      /\ \A id \in TaskIds :
           (id \notin IdsOf(files) /\ (Tick(id) \/ Respond(id) \/ FetchFails(id)))
             => files' = files
    ]_vars

\* The queue was cleared while a task was uploading, another task was
\* added since, and the response of the cleared task is about to arrive.
C9_Witness ==
  /\ isUploading
  /\ Len(files) > 0
  /\ IdsOf(files) \cap IdsOf(pendingFiles) = {}
  /\ \E id \in IdsOf(pendingFiles) :
       id \in fetching /\ id \in timers /\ net[id].phase = "response"

----------------------------------------------------------------------------
(* Vocabulary of the per-task properties. *)

\* The task of this id in the queue fs.
TaskIn(fs, id) == fs[CHOOSE i \in 1..Len(fs) : fs[i].id = id]

\* The ids in the queue before and after the step.
Kept == IdsOf(files) \cap IdsOf(files')

(* C11: the X button erases a task only while it is pending or error: a    *)
(* step of the button that is not also a step of Clear all never erases a  *)
(* task that is uploading or success.                                      *)
C11_RemoveOnlyPendingOrError ==
  [][ \A id \in TaskIds :
        (RemoveButton(id) /\ ~ ClearButton) =>
          /\ TaskIn(files, id).status \in {"pending", "error"}
          /\ \A i \in 1..Len(files) :
               files[i].status \in {"uploading", "success"} =>
                 files[i].id \in IdsOf(files')
    ]_vars

\* Task 2 was erased by the X button (task 1, added no later, is still in
\* the queue) and task 1 stayed as a success.
C11_Witness ==
  /\ nextId = 2
  /\ IdsOf(files) = {1}
  /\ files[1].status = "success"
  /\ 2 \in completed

C15_AddAppends ==
  \A newFiles \in SeqsUpTo(Files, MaxTasks) :
    addFiles(newFiles) =>
      /\ Len(files') = Len(files) + Len(newFiles)
      /\ SubSeq(files', 1, Len(files)) = files
      /\ \A k \in 1..Len(newFiles) :
           LET t == files'[Len(files) + k]
           IN  /\ t.file = newFiles[k]
               /\ t.status = "pending"
               /\ t.progress = 0
               /\ t.errorMessage = NoMessage
               /\ \A j \in 1..Len(files') : j # Len(files) + k => files'[j].id # t.id

C15_NewTasksWait ==
  \A i \in 1..Len(files) :
    (files[i].id \notin IdsOf(pendingFiles) /\ files[i].id \notin completed) =>
      /\ files[i].status = "pending"
      /\ files[i].progress = 0
      /\ calls[files[i].id] = 0

(* C15: addFiles, in any state, appends one pending task at progress 0 per *)
(* input file, in input order, files of the same name and content          *)
(* included, and leaves the tasks already queued as they are; a task that  *)
(* no handleUpload has selected is pending and has no fetch issued.        *)
C15_AddAppendsPending ==
  /\ [][C15_AddAppends]_vars
  /\ [] C15_NewTasksWait

\* A file was added twice while a handleUpload was in flight: the task the
\* handleUpload sent is uploading, the second task of the same file waits.
C15_Witness ==
  /\ isUploading
  /\ Len(files) = 2
  /\ files[1].id \in fetching
  /\ files[1].status = "uploading"
  /\ files[2].file = files[1].file
  /\ files[2].id \notin IdsOf(pendingFiles)
  /\ files[2].status = "pending"

(* C17 as stated: the progress interval of a task is active only while its *)
(* fetch is outstanding.                                                   *)
C17_TimerClearedOnResolve ==
  \A id \in timers : id \in fetching

(* C18: the status of a task changes only from pending to uploading or     *)
(* error and from uploading to success or error; a task that is success or *)
(* error stays as it is; a task leaves the queue only by the X button or   *)
(* by Clear all, and never comes back.                                     *)
C18_StatusMachine ==
  [][ /\ \A id \in Kept :
           LET a == TaskIn(files, id)
               b == TaskIn(files', id)
           IN  /\ a.status # b.status =>
                     << a.status, b.status >> \in
                        { << "pending", "uploading" >>, << "uploading", "success" >>,
                          << "uploading", "error" >>, << "pending", "error" >> }
               /\ Terminal(a) => b = a
      /\ \A id \in IdsOf(files) \ IdsOf(files') : RemoveButton(id) \/ ClearButton
      /\ \A id \in IdsOf(files') \ IdsOf(files) : id > nextId
    ]_vars

\* A task went pending, uploading, success, another went from pending to
\* error by local validation, and the interval of neither is active.
C18_Witness ==
  \E i, j \in 1..Len(files) :
    /\ files[i].status = "success"
    /\ files[j].status = "error"
    /\ outcome[files[j].id] = -1
    /\ files[j].id \in completed

C19_ProgressOfStatus ==
  \A i \in 1..Len(files) :
    LET f == files[i]
    IN  /\ f.progress \in 0..FullProgress
        /\ f.status = "pending" => f.progress = 0
        /\ f.status = "uploading" =>
              f.progress >= InitialProgress /\ f.progress <= ProgressCap
        /\ f.status = "error" => f.progress = 0
        /\ f.progress = FullProgress <=> f.status = "success"

C19_ProgressSteps ==
  \A id \in Kept :
    LET a == TaskIn(files, id)
        b == TaskIn(files', id)
    IN  /\ (a.status = "pending" /\ b.status = "uploading") =>
              b.progress = InitialProgress
        /\ (a.status = "uploading" /\ b.status = "uploading") =>
              \/ b.progress = a.progress
              \/ /\ a.progress < ProgressCap
                 /\ b.progress = IF a.progress + ProgressStep < ProgressCap
                                    THEN a.progress + ProgressStep ELSE ProgressCap

(* C19: progress is a whole number from 0 to 100 tied to the status:       *)
(* pending and error at 0, uploading from 10 to 90, 100 exactly for        *)
(* success; an uploading task starts at 10 and a step either leaves its    *)
(* progress or raises it by 20, to 90 at most.                             *)
C19_ProgressCoupled ==
  /\ [] C19_ProgressOfStatus
  /\ [][C19_ProgressSteps]_vars

\* One task is uploading at the cap of 90 while its fetch is outstanding.
C19_Witness ==
  \E i \in 1..Len(files) :
    /\ files[i].status = "uploading"
    /\ files[i].progress = ProgressCap
    /\ files[i].id \in fetching

(* C20: while a fetch of the batch of a handleUpload is outstanding,       *)
(* isUploading is set and no task of that batch shows success or error: a  *)
(* task that failed local validation shows pending, the others uploading.  *)
C20_ResultsWrittenTogether ==
  /\ pendingFiles # <<>> <=> isUploading
  /\ fetching \cap IdsOf(pendingFiles) # {} =>
       \A i \in 1..Len(files) :
         files[i].id \in IdsOf(pendingFiles) =>
           /\ ~ Terminal(files[i])
           /\ files[i].status = "pending" <=> calls[files[i].id] = 0

\* A batch of two: the fetch of one task has resolved and the task still
\* shows uploading, the fetch of the other is outstanding.
C20_Witness ==
  /\ isUploading
  /\ \E i, j \in 1..Len(files) :
       /\ files[i].id \in DOMAIN results
       /\ files[i].status = "uploading"
       /\ outcome[files[i].id] >= 0
       /\ files[j].id \in fetching

----------------------------------------------------------------------------
(* Claims about the handler, checked under HandlerSpec. *)

\* The invocations that have started, and what one of them wrote.
Started == { k \in Slots : inv[k].phase # "free" }
Answered == { k \in Slots : inv[k].phase = "answered" }
WrittenBy(k) == { o \in bucket : o.by = k }
HasFile(k) == inv[k].req.parseable /\ inv[k].req.present
IsPost(k) == inv[k].req.method = "POST"
Named(k) == inv[k].uniqueFileName # NoFileName

\* C12: the handler answers 400 to every request whose file is larger than
\* 10 MiB and writes nothing for it, whatever the client checked; a file of
\* exactly 10 MiB passes the size check and is written unless the store
\* fails; no object in the store is larger than 10 MiB.
C12_ServerSizeLimit ==
  /\ \A k \in Answered :
       IsPost(k) /\ HasFile(k) /\ inv[k].req.size > maxSize =>
         /\ inv[k].response.status = 400
         /\ ~ Named(k)
         /\ WrittenBy(k) = {}
  /\ \A k \in Started :
       IsPost(k) /\ HasFile(k) /\ inv[k].req.size = ServerMaxMB * MiB =>
         /\ Named(k)
         /\ k \in Answered => inv[k].response.status # 400
         /\ k \in Answered /\ ~ inv[k].storeError =>
              /\ inv[k].response.status = 200
              /\ \E o \in WrittenBy(k) : o.size = ServerMaxMB * MiB
  /\ \A o \in bucket : o.size <= ServerMaxMB * MiB

C12_Witness ==
  \E j, k \in Answered :
    /\ IsPost(j) /\ HasFile(j) /\ inv[j].req.size > maxSize
    /\ inv[j].response.status = 400
    /\ IsPost(k) /\ HasFile(k) /\ inv[k].req.size = maxSize
    /\ inv[k].response.status = 200
    /\ WrittenBy(k) # {}

\* The response of an answered POST, by the case of its request.
C13_ResponseOfRequest(k) ==
  LET q == inv[k].req
      r == inv[k].response
  IN  /\ r.headers = JsonHeaders
      /\ ~ r.empty
      /\ r.status \in {200, 400, 500}
      /\ r.status # 200 => ~ r.success /\ r.error # "" /\ WrittenBy(k) = {}
      /\ ~ q.parseable => r.status = 500
      /\ q.parseable /\ ~ q.present =>
           r.status = 400 /\ r.error = "No file provided"
      /\ HasFile(k) /\ q.size > maxSize =>
           r.status = 400 /\ r.error = "File exceeds 10MB limit"
      /\ r.status = 400 => ~ Named(k) /\ ~ inv[k].storeError
      /\ r.status = 500 => ~ q.parseable \/ inv[k].storeError
      /\ inv[k].storeError => r.status = 500
      /\ r.status = 200 =>
           /\ r.success
           /\ HasFile(k) /\ q.size <= maxSize
           /\ r.path = inv[k].uniqueFileName
           /\ r.url = PublicUrl(r.path)
           /\ \E o \in WrittenBy(k) : o.name = r.path
      /\ WrittenBy(k) # {} => r.status = 200

\* An invocation that is not answered has no response and wrote nothing;
\* one that waits for the store had a file within the limit.
C13_NothingBeforeAnswer ==
  \A k \in Slots \ Answered :
    /\ inv[k].response = NoResponse
    /\ WrittenBy(k) = {}
    /\ inv[k].phase = "uploading" =>
         HasFile(k) /\ inv[k].req.size <= maxSize

\* An answer is final: the invocation does nothing after it.
C13_AnsweredOnce ==
  \A k \in Answered : inv'[k] = inv[k]

\* C13: every POST gets one JSON response: 400 with "No file provided" when
\* the file field is missing, 400 when the file exceeds the limit, neither
\* with a store write attempted; 500 when the body cannot be read or the
\* store write fails; 200 with success, path and url exactly when the store
\* write succeeded; the answer, once given, is never replaced.
C13_OneJsonResponse ==
  /\ [](\A k \in Answered : IsPost(k) => C13_ResponseOfRequest(k))
  /\ []C13_NothingBeforeAnswer
  /\ [][C13_AnsweredOnce]_vars

C13_Witness ==
  \E j, k \in Answered :
    /\ IsPost(j) /\ inv[j].req.parseable /\ ~ inv[j].req.present
    /\ inv[j].response.status = 400
    /\ IsPost(k) /\ HasFile(k) /\ inv[k].storeError
    /\ inv[k].response.status = 500

\* Two invocations given files of the same original name have different
\* storage names.
C14_DistinctNames ==
  \A j, k \in Slots :
    j # k /\ Named(j) /\ Named(k) /\ inv[j].req.name = inv[k].req.name =>
      inv[j].uniqueFileName # inv[k].uniqueFileName

\* The object of every upload answered 200 is in the store as it was
\* written: no later write replaced it.
C14_ObjectsKept ==
  \A k \in Answered :
    inv[k].response.success =>
      \E o \in WrittenBy(k) :
        o.name = inv[k].response.path /\ o.size = inv[k].req.size

\* C14: two uploads of files with identical original names, concurrent or
\* not, get two distinct storage names and leave two distinct objects, and
\* no write of the handler overwrites an object.
C14_DistinctNamesNoOverwrite ==
  /\ C14_DistinctNames
  /\ C14_ObjectsKept

\* C16: an OPTIONS request is answered at once with status 200, an empty
\* body and the cross-origin headers, whatever its body holds: it is never
\* parsed, named or written, and never answered 400 or 500.
C16_PreflightFirst ==
  \A k \in Started :
    inv[k].req.method = "OPTIONS" =>
      /\ k \in Answered
      /\ inv[k].response.status = 200
      /\ inv[k].response.empty
      /\ inv[k].response.headers = corsHeaders
      /\ ~ Named(k)
      /\ ~ inv[k].storeError
      /\ WrittenBy(k) = {}

C16_Witness ==
  \E j, k \in Answered :
    /\ inv[j].req.method = "OPTIONS" /\ ~ inv[j].req.parseable
    /\ inv[j].response.status = 200
    /\ inv[k].req.method = "OPTIONS" /\ HasFile(k) /\ inv[k].req.size > maxSize
    /\ inv[k].response.status = 200

====
